---- MODULE Spec2Model ----
(***************************************************************************)
(* A model of the `attempt` library (src/attempt/__init__.py):            *)
(*   Attempted      the result container (a value or a captured exception)*)
(*   Attempt        the wrapper turning a fallible function into one that *)
(*                  returns an Attempted                                   *)
(*   IterAttempted  the lazy sequence of Attempted                         *)
(* The library keeps no state of its own, so the state machine is a       *)
(* client driving it in one of three modes: single operations on a        *)
(* container ("unit"), the two groupings of a flatmap chain ("assoc"),    *)
(* and one traversal of a lazy pipeline ("pipe").                         *)
(***************************************************************************)
EXTENDS Naturals, Sequences, FiniteSets, TLC

VARIABLES mode,
          \* unit mode
          pc, cur, origin, last,
          \* assoc mode
          a0, fT, gT, left, right,
          \* pipe mode
          src, xs, exc_types, ignore_failures, stage2,
          ppc, pos, calls, inner, seen, yielded, why, raised

unitVars == <<pc, cur, origin, last>>
assocVars == <<a0, fT, gT, left, right>>
pipeCfg == <<src, xs, exc_types, ignore_failures, stage2>>
pipeRun == <<ppc, pos, calls, inner, seen, yielded, why, raised>>
vars == <<mode, unitVars, assocVars, pipeCfg, pipeRun>>

---------------------------------------------------------------------------
(* Bounds of the model *)

\* longest source sequence a pipeline traverses
MaxLen == 3

---------------------------------------------------------------------------
(* Python values and exceptions *)

None == "None"

\* payloads: None, a falsy value and a truthy one
Values == {None, "0", "1"}

\* the payloads Python's truth test rejects
Falsy == {None, "0"}

\* the base class of an exception class, in the builtin hierarchy over
\* BaseException, Exception, LookupError, KeyError, ValueError,
\* StopIteration, RuntimeError and KeyboardInterrupt
Base(k) ==
    CASE k = "BaseException" -> "BaseException"
      [] k = "Exception" -> "BaseException"
      [] k = "KeyboardInterrupt" -> "BaseException"
      [] k = "KeyError" -> "LookupError"
      [] OTHER -> "Exception"

\* a class with all its base classes
Mro(k) == {k, Base(k), Base(Base(k)), Base(Base(Base(k)))}

\* exception objects a wrapped function may raise; two of one class tell
\* "the same error" from "an error of the same kind"
Errors == {"ValueError_1", "ValueError_2", "KeyError_1",
           "StopIteration_1", "KeyboardInterrupt_1"}

\* the RuntimeError the interpreter raises in place of a StopIteration
\* that leaves a generator body
GeneratorRuntimeError == "RuntimeError_generator_raised_StopIteration"

TypeOf(e) ==
    CASE e \in {"ValueError_1", "ValueError_2"} -> "ValueError"
      [] e = "KeyError_1" -> "KeyError"
      [] e = "StopIteration_1" -> "StopIteration"
      [] e = "KeyboardInterrupt_1" -> "KeyboardInterrupt"
      [] OTHER -> "RuntimeError"

\* isinstance(e, types), the test of an `except types` clause
IsInstance(e, types) == Mro(TypeOf(e)) \cap types # {}

\* how a call ends
Return(v) == [tag |-> "return", v |-> v, e |-> None]
Raise(e) == [tag |-> "raise", v |-> None, e |-> e]

\* a call's outcome together with the invocations of user functions it made
Effect(out, cs) == [out |-> out, calls |-> cs]

\* what a user function may do when invoked: return a payload or raise
RawOutcomes == {Return(v) : v \in Values} \cup {Raise(e) : e \in Errors}

\* a user function of one argument, as its table of effects; `name` labels
\* its entries in the invocation log
Fn(name, table) ==
    [x \in DOMAIN table |->
        Effect(table[x], <<[fn |-> name, arg |-> x]>>)]

---------------------------------------------------------------------------
(* class Attempted *)

Attempted(value, exception) == [value |-> value, exception |-> exception]

of(value) == Attempted(value, None)

of_exception(exception) == Attempted(None, exception)

exception(self) == self.exception

\* faulty variant: success judged by the truth of the payload
bool_by_value(self) == self.value \notin Falsy

\* Attempted.__bool__
bool(self) == exception(self) = None

\* faulty variant: the value is returned without looking at the exception
value_unchecked(self) == Return(self.value)

\* the property Attempted.value
value(self) ==
    IF exception(self) # None THEN Raise(exception(self))
    ELSE Return(self.value)

---------------------------------------------------------------------------
(* class Attempt *)

\* faulty variant: no exception types given means BaseException
default_BaseException(types) == IF types = {} THEN {"BaseException"} ELSE types

\* Attempt.__init__: no exception types given means Exception
default_exc_types(types) == IF types = {} THEN {"Exception"} ELSE types

\* the wrapper Attempt.__init__ builds, applied to the effect of fn(*args)
wrapper(fnEffect, types) ==
    IF fnEffect.out.tag = "return"
    THEN Effect(Return(of(fnEffect.out.v)), fnEffect.calls)
    ELSE IF IsInstance(fnEffect.out.e, default_exc_types(types))
         THEN Effect(Return(of_exception(fnEffect.out.e)), fnEffect.calls)
         ELSE fnEffect

\* Attempt(fn, *types) as a callable: Attempt.__call__
Attempt(fn, types) == [x \in DOMAIN fn |-> wrapper(fn[x], types)]

---------------------------------------------------------------------------
(* Attempted.map and Attempted.flatmap *)

\* faulty variant: fn is called without the Attempt guard
Attempted_map_unguarded(self, fn) ==
    IF bool(self) THEN
        LET r == fn[self.value] IN
        IF r.out.tag = "return" THEN Effect(Return(of(r.out.v)), r.calls) ELSE r
    ELSE Effect(Return(self), <<>>)

\* faulty variant: no test of self, fn is applied to the stored value
Attempted_map_always(self, fn) == Attempt(fn, {})[self.value]

\* Attempted.map
Attempted_map(self, fn) ==
    IF bool(self)
    THEN LET v == value(self) IN
         IF v.tag = "raise" THEN Effect(v, <<>>) ELSE Attempt(fn, {})[v.v]
    ELSE Effect(Return(self), <<>>)

\* faulty variant: flatmap captures the Exceptions fn raises, as map does
Attempted_flatmap_guarded(self, fn) ==
    IF bool(self) THEN
        LET r == fn[self.value] IN
        IF r.out.tag = "raise" /\ IsInstance(r.out.e, {"Exception"})
        THEN Effect(Return(of_exception(r.out.e)), r.calls)
        ELSE r
    ELSE Effect(Return(self), <<>>)

\* faulty variant: no test of self, fn is applied to the stored value
Attempted_flatmap_always(self, fn) == fn[self.value]

\* Attempted.flatmap
Attempted_flatmap(self, fn) ==
    IF bool(self)
    THEN LET v == value(self) IN
         IF v.tag = "raise" THEN Effect(v, <<>>) ELSE fn[v.v]
    ELSE Effect(Return(self), <<>>)

---------------------------------------------------------------------------
(* Unit mode: a client makes a container and operates on it *)

\* the containers the two named constructors make
Containers == {of(v) : v \in Values} \cup {of_exception(e) : e \in Errors}

\* what a function handed to flatmap may do: return a container or raise
FlatOutcomes == {Return(c) : c \in Containers} \cup {Raise(e) : e \in Errors}

\* the exception types a client configures an Attempt with
KindChoices == {{}, {"ValueError"}, {"LookupError"},
                {"KeyError", "StopIteration"}, {"Exception"}, {"BaseException"}}

NoOp == [op |-> "none", recv |-> of(None), types |-> {}, raw |-> Return(None),
         out |-> Return(None), calls |-> <<>>]

Op(op, recv, types, raw, eff) ==
    [op |-> op, recv |-> recv, types |-> types, raw |-> raw,
     out |-> eff.out, calls |-> eff.calls]

\* the client keeps the container an operation returned, or stops at a raise
Finish(op, recv, types, raw, eff, arg) ==
    /\ last' = Op(op, recv, types, raw, eff)
    /\ IF eff.out.tag = "return"
       THEN /\ cur' = eff.out.v
            /\ origin' = [ctor |-> op, arg |-> arg]
            /\ pc' = "ready"
       ELSE /\ pc' = "raised"
            /\ UNCHANGED <<cur, origin>>
    /\ UNCHANGED <<mode, assocVars, pipeCfg, pipeRun>>

\* Attempted.of(v)
CallOf ==
    /\ mode = "unit" /\ pc = "new"
    /\ \E v \in Values :
          Finish("of", of(None), {}, Return(v), Effect(Return(of(v)), <<>>), v)

\* Attempted.of_exception(e)
CallOfException ==
    /\ mode = "unit" /\ pc = "new"
    /\ \E e \in Errors :
          Finish("of_exception", of(None), {}, Raise(e),
                 Effect(Return(of_exception(e)), <<>>), e)

\* Attempt(f, *types)(arg), where f(arg) ends as `raw`
CallAttempt ==
    /\ mode = "unit" /\ pc = "new"
    /\ \E types \in KindChoices, arg \in Values, raw \in RawOutcomes :
          Finish("call", of(None), types, raw,
                 Attempt(Fn("f", [x \in {arg} |-> raw]), types)[arg], None)

\* bool(cur)
TestBool ==
    /\ mode = "unit" /\ pc = "ready"
    /\ last' = Op("bool", cur, {}, Return(None),
                  Effect(Return(IF bool(cur) THEN "True" ELSE "False"), <<>>))
    /\ UNCHANGED <<mode, pc, cur, origin, assocVars, pipeCfg, pipeRun>>

\* cur.value
ReadValue ==
    /\ mode = "unit" /\ pc = "ready"
    /\ last' = Op("value", cur, {}, Return(None), Effect(value(cur), <<>>))
    /\ pc' = IF value(cur).tag = "raise" THEN "raised" ELSE "ready"
    /\ UNCHANGED <<mode, cur, origin, assocVars, pipeCfg, pipeRun>>

\* cur.map(fn), where fn(x) ends as `raw`
CallMap ==
    /\ mode = "unit" /\ pc = "ready"
    /\ \E raw \in RawOutcomes :
          Finish("map", cur, {}, raw,
                 Attempted_map(cur, Fn("fn", [x \in Values |-> raw])), None)

\* cur.flatmap(fn), where fn(x) ends as `raw`
CallFlatmap ==
    /\ mode = "unit" /\ pc = "ready"
    /\ \E raw \in FlatOutcomes :
          Finish("flatmap", cur, {}, raw,
                 Attempted_flatmap(cur, Fn("fn", [x \in Values |-> raw])), None)

UnitInit ==
    /\ pc = "new" /\ cur = of(None)
    /\ origin = [ctor |-> "none", arg |-> None]
    /\ last = NoOp

UnitIdle ==
    /\ pc = "off" /\ cur = of(None)
    /\ origin = [ctor |-> "none", arg |-> None]
    /\ last = NoOp

---------------------------------------------------------------------------
(* Assoc mode: the two groupings of a.flatmap(f) ... flatmap(g) *)

AssocVals == {None, "1"}

AssocErrors == {"ValueError_1", "KeyboardInterrupt_1"}

AssocContainers ==
    {of(v) : v \in AssocVals} \cup {of_exception(e) : e \in AssocErrors}

AssocOutcomes ==
    {Return(c) : c \in AssocContainers} \cup {Raise(e) : e \in AssocErrors}

Pending == [done |-> FALSE, out |-> Return(None), calls |-> <<>>]

Done(eff) == [done |-> TRUE, out |-> eff.out, calls |-> eff.calls]

\* self.flatmap(fn) after the call that produced self ended as `first`
then_flatmap(first, fn) ==
    IF first.out.tag = "raise" THEN first
    ELSE LET r == Attempted_flatmap(first.out.v, fn) IN
         Effect(r.out, first.calls \o r.calls)

\* a0.flatmap(f).flatmap(g)
EvalLeft ==
    /\ mode = "assoc" /\ ~left.done
    /\ left' = Done(then_flatmap(Attempted_flatmap(a0, Fn("f", fT)),
                                 Fn("g", gT)))
    /\ UNCHANGED <<mode, unitVars, a0, fT, gT, right, pipeCfg, pipeRun>>

\* a0.flatmap(lambda x: f(x).flatmap(g))
EvalRight ==
    /\ mode = "assoc" /\ ~right.done
    /\ right' = Done(Attempted_flatmap(a0,
                    [x \in DOMAIN fT |->
                        then_flatmap(Fn("f", fT)[x], Fn("g", gT))]))
    /\ UNCHANGED <<mode, unitVars, a0, fT, gT, left, pipeCfg, pipeRun>>

AssocInit ==
    /\ a0 \in AssocContainers
    /\ fT \in [AssocVals -> AssocOutcomes]
    /\ gT \in [AssocVals -> AssocOutcomes]
    /\ left = Pending /\ right = Pending

AssocIdle ==
    /\ a0 = of(None) /\ fT = <<>> /\ gT = <<>>
    /\ left = Pending /\ right = Pending

---------------------------------------------------------------------------
(* Pipe mode: one traversal of                                            *)
(*   src(xs) [.map(g)] .values(ignore_failures)                            *)
(* where src is IterAttempted.from_values, Attempt(f, *exc_types).map or  *)
(* Attempt(f, *exc_types).starmap. An element is named by its position.   *)

\* the sources a client hands to the three constructors
Sources(kind) ==
    CASE kind = "from_values" -> UNION {[1..n -> Values] : n \in 0..MaxLen}
      [] kind = "map" -> {[i \in 1..n |-> i] : n \in 0..MaxLen}
      [] OTHER -> {[i \in 1..n |-> <<i, i>>] : n \in 0..MaxLen}

PipeKinds == {{}, {"ValueError"}, {"BaseException"}}

\* what f and g may do on an element
OutcomesF == {Return("0"), Return("1"), Raise("ValueError_1"),
              Raise("StopIteration_1"), Raise("KeyboardInterrupt_1")}

OutcomesG == {Return(None), Return("1"), Raise("ValueError_2"),
              Raise("KeyboardInterrupt_1")}

\* the invocations `cs`, marked as made for element i
Tag(cs, i) ==
    [k \in DOMAIN cs |-> [fn |-> cs[k].fn, arg |-> cs[k].arg, i |-> i]]

\* how a next() on an iterator ends: an item, StopIteration, or another
\* exception; with the invocations made and the source position reached
Item(c, cs, p) ==
    [kind |-> "item", item |-> c, e |-> None, by |-> "", calls |-> cs, pos |-> p]
Stop(by, cs, p) ==
    [kind |-> "stop", item |-> of(None), e |-> None, by |-> by, calls |-> cs, pos |-> p]
Propagate(e, cs, p) ==
    [kind |-> "raise", item |-> of(None), e |-> e, by |-> "", calls |-> cs, pos |-> p]

\* a call made inside an iterator's __next__: its return value is the
\* item; a StopIteration it raises reads as the end of the iteration
AsNext(eff, i, p) ==
    IF eff.out.tag = "return" THEN Item(eff.out.v, Tag(eff.calls, i), p)
    ELSE IF IsInstance(eff.out.e, {"StopIteration"})
         THEN Stop("fn", Tag(eff.calls, i), p)
         ELSE Propagate(eff.out.e, Tag(eff.calls, i), p)

\* a lazy sequence just constructed: nothing pulled, nothing invoked
Lazy == [pos |-> 0, calls |-> <<>>]

\* a sequence that invoked f on every element when constructed
Eager(iterable) ==
    [pos |-> 0,
     calls |-> [i \in 1..Len(iterable) |->
                   [fn |-> "f", arg |-> iterable[i], i |-> i]]]

\* IterAttempted.from_values(xs)
from_values(iterable) == Lazy

\* faulty variant: construction runs f over the whole iterable
Attempt_map_eager(iterable) == Eager(iterable)

\* Attempt.map(iterable)
Attempt_map(iterable) == Lazy

\* Attempt.starmap(iterable)
Attempt_starmap(iterable) == Lazy

\* IterAttempted.map(fn) on the sequence `it`
IterAttempted_map(it) == it

\* next() on the iterator under the first IterAttempted, at position p,
\* where f on that element ends as rawf
stage1_next(p, rawf) ==
    IF p >= Len(xs) THEN Stop("end", <<>>, p)
    ELSE IF src = "from_values"
         THEN AsNext(Effect(Return(of(xs[p + 1])), <<>>), p + 1, p + 1)
         ELSE AsNext(Attempt(Fn("f", [x \in {xs[p + 1]} |-> rawf]),
                             exc_types)[xs[p + 1]],
                     p + 1, p + 1)

\* faulty variant: the next element is fetched before g is applied
stage2_next_lookahead(p, rawf, rawg) ==
    LET r == stage1_next(p, rawf)
        peek == stage1_next(r.pos, rawf)
    IN  IF r.kind # "item" THEN r
        ELSE LET m == AsNext(Attempted_map(r.item,
                                 Fn("g", [x \in Values |-> rawg])),
                             r.pos, peek.pos)
             IN  [m EXCEPT !.calls = r.calls \o peek.calls \o m.calls]

\* next() on map(lambda x: x.map(fn), self), the iterator under the
\* second IterAttempted, where g on that element ends as rawg
stage2_next(p, rawf, rawg) ==
    LET r == stage1_next(p, rawf) IN
    IF r.kind # "item" THEN r
    ELSE LET m == AsNext(Attempted_map(r.item,
                             Fn("g", [x \in Values |-> rawg])),
                         r.pos, r.pos)
         IN  [m EXCEPT !.calls = r.calls \o m.calls]

\* an exception raised inside a generator body: a StopIteration reaches
\* the consumer as a RuntimeError
generator_raise(e) ==
    IF IsInstance(e, {"StopIteration"}) THEN GeneratorRuntimeError ELSE e

\* one iteration of the loop of IterAttempted.values on what next() gave
values(r, ignore) ==
    CASE r.kind = "stop" ->
            [ppc |-> "exhausted", out |-> <<>>, why |-> r.by, raised |-> None]
      [] r.kind = "raise" ->
            [ppc |-> "raised", out |-> <<>>, why |-> "propagated",
             raised |-> r.e]
      [] r.kind = "item" /\ bool(r.item) ->
            [ppc |-> "iterating", out |-> <<value(r.item).v>>, why |-> "",
             raised |-> None]
      [] r.kind = "item" /\ ~bool(r.item) /\ ignore ->
            [ppc |-> "iterating", out |-> <<>>, why |-> "", raised |-> None]
      [] OTHER ->
            [ppc |-> "raised", out |-> <<>>, why |-> "held",
             raised |-> generator_raise(exception(r.item))]

\* the client builds the pipeline and calls values(): lazy, so far
Construct ==
    /\ mode = "pipe" /\ ppc = "new"
    /\ LET it1 == CASE src = "from_values" -> from_values(xs)
                    [] src = "map" -> Attempt_map(xs)
                    [] OTHER -> Attempt_starmap(xs)
           it2 == IF stage2 THEN IterAttempted_map(it1) ELSE it1
       IN  /\ pos' = it2.pos
           /\ calls' = it2.calls
    /\ ppc' = "built"
    /\ UNCHANGED <<mode, unitVars, assocVars, pipeCfg, inner, seen, yielded,
                   why, raised>>

\* the consumer advances the generator of values() by one loop iteration
ValuesStep ==
    /\ mode = "pipe" /\ ppc \in {"built", "iterating"}
    /\ \E rawf \in OutcomesF, rawg \in OutcomesG :
          LET r1 == stage1_next(pos, rawf)
              r == IF stage2 THEN stage2_next(pos, rawf, rawg) ELSE r1
              v == values(r, ignore_failures)
          IN  /\ pos' = r.pos
              /\ calls' = calls \o r.calls
              /\ inner' = IF r1.kind = "item" THEN Append(inner, r1.item)
                          ELSE inner
              /\ seen' = IF r.kind = "item" THEN Append(seen, r.item) ELSE seen
              /\ yielded' = yielded \o v.out
              /\ ppc' = v.ppc
              /\ why' = v.why
              /\ raised' = v.raised
    /\ UNCHANGED <<mode, unitVars, assocVars, pipeCfg>>

PipeInit ==
    /\ src \in {"from_values", "map", "starmap"}
    /\ xs \in Sources(src)
    /\ exc_types \in (IF src = "from_values" THEN {{}} ELSE PipeKinds)
    /\ ignore_failures \in BOOLEAN
    /\ stage2 \in BOOLEAN
    /\ ppc = "new" /\ pos = 0 /\ calls = <<>> /\ inner = <<>> /\ seen = <<>>
    /\ yielded = <<>> /\ why = "" /\ raised = None

PipeIdle ==
    /\ src = "none" /\ xs = <<>> /\ exc_types = {}
    /\ ignore_failures = FALSE /\ stage2 = FALSE
    /\ ppc = "off" /\ pos = 0 /\ calls = <<>> /\ inner = <<>> /\ seen = <<>>
    /\ yielded = <<>> /\ why = "" /\ raised = None

---------------------------------------------------------------------------

Init ==
    \/ mode = "unit" /\ UnitInit /\ AssocIdle /\ PipeIdle
    \/ mode = "assoc" /\ UnitIdle /\ AssocInit /\ PipeIdle
    \/ mode = "pipe" /\ UnitIdle /\ AssocIdle /\ PipeInit

Next ==
    \/ CallOf
    \/ CallOfException
    \/ CallAttempt
    \/ TestBool
    \/ ReadValue
    \/ CallMap
    \/ CallFlatmap
    \/ EvalLeft
    \/ EvalRight
    \/ Construct
    \/ ValuesStep

Spec == Init /\ [][Next]_vars

---------------------------------------------------------------------------
(* Vocabulary of the properties, stated on the fields themselves *)

Succeeded(c) == c.exception = "None"

Returned(out, x) == out.tag = "return" /\ out.v = x

Raised(out, e) == out.tag = "raise" /\ out.e = e

SameOutcome(o1, o2) ==
    /\ o1.tag = o2.tag
    /\ IF o1.tag = "return" THEN o1.v = o2.v ELSE o1.e = o2.e

\* the payloads of the successful containers of s, in order
SuccessValues(s) ==
    LET Ok(c) == Succeeded(c)
        ok == SelectSeq(s, Ok)
    IN  [i \in 1..Len(ok) |-> ok[i].value]

\* the position of the first failed container of s, 0 when there is none
FirstFailure(s) ==
    IF \E i \in 1..Len(s) : ~Succeeded(s[i])
    THEN CHOOSE i \in 1..Len(s) :
            /\ ~Succeeded(s[i])
            /\ \A j \in 1..(i - 1) : Succeeded(s[j])
    ELSE 0

CallsOf(name) ==
    LET Is(c) == c.fn = name IN SelectSeq(calls, Is)

\* the error is an instance of a class of K (itself or a subclass)
OfKind(e, K) == \E k \in K : k \in Mro(TypeOf(e))

---------------------------------------------------------------------------
(* C1 *)

\* C1 (as stated): Attempt(f, *K)(args) returns a successful container of
\* r when f returns r, a failed container holding e when f raises an e
\* whose kind is one of K, and lets e propagate when its kind is not in K,
\* for every K, the empty one included.
C1_AsStated ==
    last.op = "call" =>
        /\ last.raw.tag = "return" => Returned(last.out, of(last.raw.v))
        /\ last.raw.tag = "raise" /\ OfKind(last.raw.e, last.types) =>
              Returned(last.out, of_exception(last.raw.e))
        /\ last.raw.tag = "raise" /\ ~OfKind(last.raw.e, last.types) =>
              Raised(last.out, last.raw.e) /\ pc = "raised"

\* C1 (amended): the same three outcomes with the kinds in force being K
\* when K is not empty and {Exception} when no kind is given: an
\* Exception raised under an empty K is captured, and only an error
\* outside Exception (KeyboardInterrupt) propagates.
C1_Amended ==
    last.op = "call" =>
        LET K == IF last.types = {} THEN {"Exception"} ELSE last.types IN
        /\ Len(last.calls) = 1
        /\ last.raw.tag = "return" =>
              Returned(last.out, of(last.raw.v)) /\ cur = of(last.raw.v)
        /\ last.raw.tag = "raise" /\ OfKind(last.raw.e, K) =>
              /\ Returned(last.out, of_exception(last.raw.e))
              /\ cur = of_exception(last.raw.e)
        /\ last.raw.tag = "raise" /\ ~OfKind(last.raw.e, K) =>
              Raised(last.out, last.raw.e) /\ pc = "raised"

\* no kind configured, f raises a ValueError, the call returns a container
C1_Witness ==
    /\ last.op = "call" /\ last.types = {}
    /\ last.raw = Raise("ValueError_1")
    /\ last.out.tag = "return" /\ pc = "ready"

---------------------------------------------------------------------------
(* C2 *)

\* C2: values(ignore_failures=False) yields the values of the successful
\* elements up to the first failed one, then raises the error that element
\* holds and stops: nothing after it is pulled or yielded.
C2_AsStated ==
    mode = "pipe" /\ ~ignore_failures =>
        LET k == FirstFailure(seen) IN
        /\ yielded = SuccessValues(seen)
        /\ Len(yielded) = (IF k = 0 THEN Len(seen) ELSE k - 1)
        /\ k # 0 => /\ ppc = "raised" /\ why = "held"
                    /\ raised = seen[k].exception
                    /\ Len(seen) = k /\ pos = k
        /\ why = "held" => k # 0

\* C2, the extent of the divergence: the claim holds of every traversal
\* but for the error raised when the first failed element holds a
\* StopIteration, which reaches the consumer as a RuntimeError.
C2_ExceptStopIteration ==
    mode = "pipe" /\ ~ignore_failures =>
        LET k == FirstFailure(seen) IN
        /\ yielded = SuccessValues(seen)
        /\ Len(yielded) = (IF k = 0 THEN Len(seen) ELSE k - 1)
        /\ k # 0 => /\ ppc = "raised" /\ why = "held"
                    /\ raised = (IF OfKind(seen[k].exception, {"StopIteration"})
                                 THEN GeneratorRuntimeError
                                 ELSE seen[k].exception)
                    /\ Len(seen) = k /\ pos = k
        /\ why = "held" => k # 0

---------------------------------------------------------------------------
(* C3 *)

\* C3: values(ignore_failures=True) yields exactly the values of the
\* successful elements, in order and once each; a failed element neither
\* makes the traversal raise nor keeps it from the later elements.
C3_SkipsFailures ==
    mode = "pipe" /\ ignore_failures =>
        /\ yielded = SuccessValues(seen)
        /\ why # "held"
        /\ ppc = "raised" => why = "propagated"
        /\ ppc = "exhausted" /\ why = "end" => Len(seen) = Len(xs)
        /\ ppc = "exhausted" => why \in {"end", "fn"}
        /\ ppc \in {"iterating", "exhausted", "raised"} \/ seen = <<>>

\* a failure and a falsy success both passed, and the traversal went on
C3_Witness ==
    /\ mode = "pipe" /\ ignore_failures
    /\ Len(seen) = 3 /\ ~Succeeded(seen[1]) /\ Succeeded(seen[2])
    /\ seen[2].value = "0" /\ Succeeded(seen[3])
    /\ Len(yielded) = 2

---------------------------------------------------------------------------
(* C4 *)

\* C4: map and flatmap on a failed container return that container
\* unchanged without invoking fn, and IterAttempted.map passes a failed
\* element through unchanged without invoking fn on it.
C4_ShortCircuit ==
    /\ last.op \in {"map", "flatmap"} /\ ~Succeeded(last.recv) =>
          /\ Returned(last.out, last.recv)
          /\ last.calls = <<>>
          /\ cur = last.recv
    /\ mode = "pipe" /\ stage2 =>
          \A i \in 1..Len(seen) :
              ~Succeeded(inner[i]) =>
                  /\ seen[i] = inner[i]
                  /\ \A k \in DOMAIN calls :
                        ~(calls[k].fn = "g" /\ calls[k].i = i)

\* map was applied to a failed container
C4_Witness ==
    /\ last.op = "map" /\ ~Succeeded(last.recv)
    /\ last.raw.tag = "return" /\ pc = "ready"

---------------------------------------------------------------------------
(* C5 *)

\* C5 (as stated): a.map(fn) on a successful a never raises: fn's result r
\* comes back as a successful container of r, and any error fn raises,
\* whatever its kind, comes back in a failed container.
C5_AsStated ==
    last.op = "map" /\ Succeeded(last.recv) =>
        /\ last.out.tag = "return"
        /\ last.raw.tag = "return" => Returned(last.out, of(last.raw.v))
        /\ last.raw.tag = "raise" =>
              Returned(last.out, of_exception(last.raw.e))

\* C5 (amended): fn's result r comes back as a successful container of r;
\* an error fn raises that is an Exception comes back in a failed
\* container holding it; an error outside Exception (KeyboardInterrupt)
\* propagates out of a.map(fn).
C5_Amended ==
    last.op = "map" /\ Succeeded(last.recv) =>
        /\ last.calls = <<[fn |-> "fn", arg |-> last.recv.value]>>
        /\ last.raw.tag = "return" => Returned(last.out, of(last.raw.v))
        /\ last.raw.tag = "raise" /\ OfKind(last.raw.e, {"Exception"}) =>
              Returned(last.out, of_exception(last.raw.e))
        /\ last.raw.tag = "raise" /\ ~OfKind(last.raw.e, {"Exception"}) =>
              Raised(last.out, last.raw.e) /\ pc = "raised"

\* fn raised an Exception on a successful container and map captured it
C5_Witness ==
    /\ last.op = "map" /\ Succeeded(last.recv)
    /\ last.raw = Raise("KeyError_1")
    /\ cur = of_exception("KeyError_1") /\ pc = "ready"

---------------------------------------------------------------------------
(* C6 *)

---------------------------------------------------------------------------
(* C7 *)

\* C7: constructing a lazy sequence invokes nothing and pulls nothing;
\* once the traversal has pulled n source elements, f has been invoked for
\* exactly the first n of them, in order, and g for none beyond them.
C7_Lazy ==
    mode = "pipe" =>
        LET fcalls == CallsOf("f") IN
        /\ ppc \in {"new", "built"} => calls = <<>> /\ pos = 0
        /\ pos <= Len(xs)
        /\ Len(fcalls) = (IF src = "from_values" THEN 0 ELSE pos)
        /\ \A i \in 1..Len(fcalls) : fcalls[i].i = i /\ fcalls[i].arg = xs[i]
        /\ \A k \in DOMAIN calls : calls[k].i <= pos
        /\ Len(seen) <= pos /\ pos <= Len(seen) + 1
        /\ pos = Len(seen) + 1 =>
              ppc \in {"raised", "exhausted"} /\ why \in {"propagated", "fn"}

\* a sequence over two or more arguments is built and f was never invoked
C7_Witness ==
    /\ mode = "pipe" /\ src = "map" /\ stage2 /\ ppc = "built"
    /\ Len(xs) >= 2 /\ calls = <<>>

---------------------------------------------------------------------------
(* C8 *)

\* C8: for a successful a, a.flatmap(f).flatmap(g) and
\* a.flatmap(lambda x: f(x).flatmap(g)) end the same way and invoke f and
\* g the same number of times in the same order; g is not invoked when f
\* returns a failed container.
C8_Associative ==
    mode = "assoc" /\ Succeeded(a0) /\ left.done /\ right.done =>
        /\ SameOutcome(left.out, right.out)
        /\ left.calls = right.calls
        /\ left.calls[1] = [fn |-> "f", arg |-> a0.value]
        /\ fT[a0.value].tag = "return" /\ ~Succeeded(fT[a0.value].v) =>
              /\ Len(left.calls) = 1
              /\ Returned(left.out, fT[a0.value].v)

\* both groupings were evaluated where f returned a failed container
C8_Witness ==
    /\ mode = "assoc" /\ Succeeded(a0) /\ left.done /\ right.done
    /\ fT[a0.value].tag = "return" /\ ~Succeeded(fT[a0.value].v)

---------------------------------------------------------------------------
(* C9 *)

\* C9: flatmap on a successful container gives fn no guard: an error fn
\* raises propagates out of flatmap, and a container fn returns is
\* returned as it is.
C9_FlatmapUnguarded ==
    last.op = "flatmap" /\ Succeeded(last.recv) =>
        /\ last.calls = <<[fn |-> "fn", arg |-> last.recv.value]>>
        /\ last.raw.tag = "raise" =>
              Raised(last.out, last.raw.e) /\ pc = "raised"
        /\ last.raw.tag = "return" =>
              Returned(last.out, last.raw.v) /\ cur = last.raw.v

\* fn raised a ValueError inside flatmap and it propagated
C9_Witness ==
    /\ last.op = "flatmap" /\ Succeeded(last.recv)
    /\ last.raw = Raise("ValueError_1") /\ pc = "raised"

---------------------------------------------------------------------------
(* C10 *)

\* C10: in Attempt(f).map(xs).map(g).values(...), f and g are each invoked
\* at most once per element, in source order, and the invocations for
\* element i (f, then g if f succeeded) come before f for element i+1.
C10_Interleaved ==
    mode = "pipe" =>
        /\ \A j, k \in DOMAIN calls :
              j < k =>
                  \/ calls[j].i < calls[k].i
                  \/ /\ calls[j].i = calls[k].i
                     /\ calls[j].fn = "f" /\ calls[k].fn = "g"
        /\ \A k \in DOMAIN calls :
              calls[k].fn = "g" =>
                  /\ stage2 /\ calls[k].i <= Len(inner)
                  /\ Succeeded(inner[calls[k].i])
        /\ stage2 =>
              \A i \in 1..Len(inner) :
                  Succeeded(inner[i]) =>
                      \E k \in DOMAIN calls :
                          calls[k].fn = "g" /\ calls[k].i = i

\* two elements went through f and g, each element wholly before the next
C10_Witness ==
    /\ mode = "pipe" /\ src = "map" /\ stage2
    /\ Len(calls) = 4
    /\ calls[1].fn = "f" /\ calls[2].fn = "g"
    /\ calls[3].fn = "f" /\ calls[4].fn = "g"
    /\ calls[2].i = 1 /\ calls[3].i = 2

====
